---- MODULE Spec2Model ----
(***************************************************************************)
(* EMI calculator: the amortized-payment function calculateEMI and the     *)
(* calculation-history hook useEmiCalculationHistory (a React state cell   *)
(* mirrored into one localStorage slot).                                   *)
(*                                                                         *)
(* JavaScript values are records tagged by the field cls:                  *)
(*   "fin"    a finite IEEE-754 double (-1)^sgn * (hi*2^27 + lo) * 2^exp,  *)
(*            normalised so that 2^52 <= hi*2^27 + lo < 2^53 (zero: all 0) *)
(*   "inf"    +Infinity or -Infinity          "nan"   NaN                  *)
(*   "null"   null                            "undef" undefined / missing  *)
(*   "id"     the string `${t}-${r}` built by addEntry                     *)
(*   "str"    any other string                                             *)
(*   "term"   the value of the compounding formula (Math.pow), kept        *)
(*            symbolic                                                     *)
(***************************************************************************)
EXTENDS Integers, Sequences, FiniteSets, TLC

VARIABLES
    storage,    \* localStorage slot STORAGE_KEY
    history,    \* React state `history`
    isLoading,  \* React state `isLoading`
    now,        \* the value Date.now() returns
    lastOp,     \* the operation that ran last, with its inputs
    ret,        \* what that operation returned to its caller
    raised,     \* the error that operation raised to its caller, or "none"
    added,      \* entries created by addEntry since the last initialize or clear, oldest first
    fromEmpty,  \* whether the log was empty at that initialize or clear
    beforeReload,  \* the log the last page reload threw away
    budget,     \* how many adds, clears, refreshes, clock ticks and failed writes have happened
    calcArgs,   \* arguments of the calculateEMI call
    calcOut,    \* outcome of the calculateEMI call
    form,       \* EmiCalculator state `principal`, `interestRate`, `tenure`, `tenureUnit`
    result,     \* EmiCalculator state `result`
    errors      \* EmiCalculator state `errors`: the fields that carry a message

vars == <<storage, history, isLoading, now, lastOp, ret, raised, added, fromEmpty, beforeReload,
          budget, calcArgs, calcOut, form, result, errors>>

storeVars == <<storage, history, isLoading, now, added, fromEmpty, beforeReload, budget>>

logVars == <<storage, history, isLoading, now, added, fromEmpty, beforeReload>>

calcVars == <<calcArgs, calcOut>>

formVars == <<form, result, errors>>

----------------------------------------------------------------------------
(* Program constants *)

MAX_HISTORY_ITEMS == 50

INVALID_INPUT_MESSAGE == "Invalid input: principal and tenure must be positive, interest rate must be non-negative"

(* Bounds of the model *)

MaxPrincipal == 8

MaxTenure == 25

MaxAdds == 2

MaxClears == 2

MaxRefreshes == 1

MaxTicks == 1

MaxWriteFailures == 1

MaxOps == 3

MaxFormEvents == 4

MaxRandom == 1

MaxFill == 52

----------------------------------------------------------------------------
(* IEEE-754 binary64 arithmetic, round-to-nearest-even, on the operand     *)
(* shapes calculateEMI meets when its arguments are integers. Mantissas    *)
(* are handled in 13-bit limbs so that every intermediate fits 32 bits.    *)

TwoTo(n) == 2 ^ n

RECURSIVE BitLen(_)
BitLen(k) == IF k = 0 THEN 0 ELSE 1 + BitLen(k \div 2)

Zero == [cls |-> "fin", sgn |-> 0, exp |-> 0, hi |-> 0, lo |-> 0]

NaN == [cls |-> "nan"]

Infinity == [cls |-> "inf", sgn |-> 0]

Null == [cls |-> "null"]

Undefined == [cls |-> "undef"]

IsZero(x) == x.cls = "fin" /\ x.hi = 0 /\ x.lo = 0

(* Round a positive value to 53 bits: d holds the leading 53 bits as five  *)
(* limbs d[5] d[4] d[3] d[2] d[1] (d[5] is the leading 1), guard the next  *)
(* bit, sticky whether any later bit is set.                               *)
RoundPack(sgn, d, exp, guard, sticky) ==
    LET h  == d[5] * TwoTo(25) + d[4] * TwoTo(12) + d[3] \div 2
        l  == (d[3] % 2) * TwoTo(26) + d[2] * TwoTo(13) + d[1]
        up == guard = 1 /\ (sticky \/ l % 2 = 1)
        l1 == IF up THEN l + 1 ELSE l
        h1 == IF l1 = TwoTo(27) THEN h + 1 ELSE h
        l2 == IF l1 = TwoTo(27) THEN 0 ELSE l1
    IN  IF h1 = TwoTo(26)
        THEN [cls |-> "fin", sgn |-> sgn, exp |-> exp + 1, hi |-> TwoTo(25), lo |-> 0]
        ELSE [cls |-> "fin", sgn |-> sgn, exp |-> exp, hi |-> h1, lo |-> l2]

(* The five 13-bit limbs of the mantissa of a nonzero finite double *)
Unpack(x) ==
    << x.lo % TwoTo(13),
       (x.lo \div TwoTo(13)) % TwoTo(13),
       (x.hi % TwoTo(12)) * 2 + x.lo \div TwoTo(26),
       (x.hi \div TwoTo(12)) % TwoTo(13),
       x.hi \div TwoTo(25) >>

(* The double k * 2^e, for an integer 1 <= k < 2^31 *)
FromNatExp(sgn, k, e) ==
    LET L == BitLen(k)
    IN  [cls |-> "fin", sgn |-> sgn, exp |-> e + L - 53,
         hi  |-> IF L <= 26 THEN k * TwoTo(26 - L) ELSE k \div TwoTo(L - 26),
         lo  |-> IF L <= 26 THEN 0 ELSE (k % TwoTo(L - 26)) * TwoTo(53 - L)]

(* Number conversion of an integer literal *)
FromInt(k) ==
    IF k = 0 THEN Zero
    ELSE IF k > 0 THEN FromNatExp(0, k, 0) ELSE FromNatExp(1, 0 - k, 0)

(* The least z with p * 2^z >= n *)
RECURSIVE NormShift(_, _)
NormShift(p, n) == IF p >= n THEN 0 ELSE 1 + NormShift(2 * p, n)

(* p / n in binary64, for integers 1 <= p < 2^18, 1 <= n < 2^18: both are  *)
(* scaled by powers of two so that the quotient lies in [1, 2), then 52    *)
(* fraction bits are produced by long division, 13 at a time.              *)
fdiv(p, n) ==
    LET zp == NormShift(p, n)
        zn == IF p >= n THEN BitLen(p \div n) - 1 ELSE 0
        pz == p * TwoTo(zp)
        nz == n * TwoTo(zn)
        r0 == pz - nz
        c4 == (r0 * TwoTo(13)) \div nz
        r4 == (r0 * TwoTo(13)) % nz
        c3 == (r4 * TwoTo(13)) \div nz
        r3 == (r4 * TwoTo(13)) % nz
        c2 == (r3 * TwoTo(13)) \div nz
        r2 == (r3 * TwoTo(13)) % nz
        c1 == (r2 * TwoTo(13)) \div nz
        r1 == (r2 * TwoTo(13)) % nz
    IN  RoundPack(0, <<c1, c2, c3, c4, 1>>, zn - zp - 52,
                  (2 * r1) \div nz, (2 * r1) % nz # 0)

(* x * n in binary64, for a positive finite double x and an integer        *)
(* 1 <= n < 2^12                                                           *)
fmul(x, n) ==
    LET d  == Unpack(x)
        p1 == d[1] * n
        p2 == d[2] * n + p1 \div TwoTo(13)
        p3 == d[3] * n + p2 \div TwoTo(13)
        p4 == d[4] * n + p3 \div TwoTo(13)
        t  == d[5] * n + p4 \div TwoTo(13)
        r  == <<p1 % TwoTo(13), p2 % TwoTo(13), p3 % TwoTo(13), p4 % TwoTo(13), t>>
        s  == BitLen(t) - 1
        e  == [i \in 1..5 |->
                  IF i = 5 THEN t \div TwoTo(s)
                  ELSE r[i] \div TwoTo(s) + (r[i + 1] % TwoTo(s)) * TwoTo(13 - s)]
        discarded == r[1] % TwoTo(s)
        guard   == IF s = 0 THEN 0 ELSE discarded \div TwoTo(s - 1)
        sticky  == s > 0 /\ discarded % TwoTo(s - 1) # 0
    IN  RoundPack(0, e, x.exp + s, guard, sticky)

(* x - p in binary64, for a positive finite double x and an integer p >= 1 *)
(* whose exponents differ by at most one: the difference is then exact.    *)
fsub(x, p) ==
    LET y  == FromInt(p)
        e  == IF x.exp <= y.exp THEN x.exp ELSE y.exp
        sx == CASE x.exp - e = 0 -> 1 [] x.exp - e = 1 -> 2
        sy == CASE y.exp - e = 0 -> 1 [] y.exp - e = 1 -> 2
        d  == (sx * x.hi - sy * y.hi) * TwoTo(27) + (sx * x.lo - sy * y.lo)
    IN  IF d = 0 THEN Zero
        ELSE IF d > 0 THEN FromNatExp(0, d, e) ELSE FromNatExp(1, 0 - d, e)

(* |x| <= |y| for finite doubles *)
MagLeq(x, y) ==
    \/ IsZero(x)
    \/ /\ ~IsZero(y)
       /\ \/ x.exp < y.exp
          \/ x.exp = y.exp /\ x.hi < y.hi
          \/ x.exp = y.exp /\ x.hi = y.hi /\ x.lo <= y.lo

(* The unit in the last place of the double nearest the integer p >= 1 *)
Ulp(p) == FromNatExp(0, 1, FromInt(p).exp)

----------------------------------------------------------------------------
(* calculateEMI *)

(* The compounding branch goes through Math.pow; its values stay symbolic *)
Term(name, principal, annualInterestRate, tenureMonths) ==
    [cls |-> "term", name |-> name, p |-> principal, r |-> annualInterestRate,
     n |-> tenureMonths]

Results(principal, tenureMonths, monthlyEMI, totalPayment, totalInterest) ==
    [status |-> "returned",
     value  |-> [monthlyEMI    |-> monthlyEMI,
                 totalPayment  |-> totalPayment,
                 totalInterest |-> totalInterest,
                 principal     |-> FromInt(principal),
                 tenureMonths  |-> FromInt(tenureMonths)]]

Thrown(message) == [status |-> "threw", error |-> [name |-> "Error", message |-> message]]

(* calculateEMI with the zero-rate special case left out: 0 / 0 is NaN *)
calculateEMI_NoZeroRateCase(principal, annualInterestRate, tenureMonths) ==
    IF principal <= 0 \/ tenureMonths <= 0 \/ annualInterestRate < 0
    THEN Thrown(INVALID_INPUT_MESSAGE)
    ELSE IF annualInterestRate = 0
    THEN Results(principal, tenureMonths, NaN, NaN, NaN)
    ELSE Results(principal, tenureMonths,
                 Term("monthlyEMI", principal, annualInterestRate, tenureMonths),
                 Term("totalPayment", principal, annualInterestRate, tenureMonths),
                 Term("totalInterest", principal, annualInterestRate, tenureMonths))

(* calculateEMI with principal < 0 in place of principal <= 0 *)
calculateEMI_ZeroPrincipalAccepted(principal, annualInterestRate, tenureMonths) ==
    IF principal < 0 \/ tenureMonths <= 0 \/ annualInterestRate < 0
    THEN Thrown(INVALID_INPUT_MESSAGE)
    ELSE Results(principal, tenureMonths,
                 Term("monthlyEMI", principal, annualInterestRate, tenureMonths),
                 Term("totalPayment", principal, annualInterestRate, tenureMonths),
                 Term("totalInterest", principal, annualInterestRate, tenureMonths))

calculateEMI(principal, annualInterestRate, tenureMonths) ==
    IF principal <= 0 \/ tenureMonths <= 0 \/ annualInterestRate < 0
    THEN Thrown(INVALID_INPUT_MESSAGE)
    ELSE LET monthlyEMI ==
                 IF annualInterestRate = 0
                 THEN fdiv(principal, tenureMonths)
                 ELSE Term("monthlyEMI", principal, annualInterestRate, tenureMonths)
             totalPayment ==
                 IF monthlyEMI.cls = "fin"
                 THEN fmul(monthlyEMI, tenureMonths)
                 ELSE Term("totalPayment", principal, annualInterestRate, tenureMonths)
             totalInterest ==
                 IF totalPayment.cls = "fin"
                 THEN fsub(totalPayment, principal)
                 ELSE Term("totalInterest", principal, annualInterestRate, tenureMonths)
         IN  Results(principal, tenureMonths, monthlyEMI, totalPayment, totalInterest)

Pending == [status |-> "pending"]

NoOp == [op |-> "none"]

Principals == (-1..MaxPrincipal) \cup {100000}

Rates == {-1, 0, 5}

Tenures == -1..MaxTenure

CalcInputs ==
    [principal : Principals, annualInterestRate : Rates, tenureMonths : Tenures]

(* One call of calculateEMI on the arguments chosen at the start *)
Compute ==
    /\ calcOut = Pending
    /\ calcOut' = calculateEMI(calcArgs.principal, calcArgs.annualInterestRate,
                               calcArgs.tenureMonths)
    /\ lastOp' = [op |-> "calculateEMI"]
    /\ UNCHANGED <<storeVars, ret, raised, calcArgs, formVars>>

----------------------------------------------------------------------------
(* useEmiCalculationHistory: values held in the slot *)

(* The slot holds no item: getItem returns null *)
Absent == [kind |-> "absent"]

(* The slot holds a string; json is the JSON value the string denotes, or  *)
(* "invalid" when the string is not JSON, or "empty" for the string ""     *)
Text(json) == [kind |-> "text", json |-> json]

ArrayOf(items) == [cls |-> "array", items |-> items]

ObjectWithEntries(v) == [j |-> "object", entries |-> v]

(* JSON.stringify of one value: NaN and the infinities are written as null *)
SerializeValue(v) == IF v.cls \in {"inf", "nan"} THEN Null ELSE v

(* JSON.stringify({ entries: h }) *)
Stringify(h) ==
    Text(ObjectWithEntries(ArrayOf(
        [i \in 1..Len(h) |-> [f \in DOMAIN h[i] |-> SerializeValue(h[i][f])]])))

(* The entry addEntry is given by handleCalculate for integer arguments    *)
EntryInput(principal, annualInterestRate, tenureMonths) ==
    LET r == calculateEMI(principal, annualInterestRate, tenureMonths).value
    IN  [principal          |-> FromInt(principal),
         annualInterestRate |-> FromInt(annualInterestRate),
         tenureMonths       |-> FromInt(tenureMonths),
         monthlyEMI         |-> r.monthlyEMI,
         totalInterest      |-> r.totalInterest,
         totalPayment       |-> r.totalPayment]

(* The entry handed over for principal 100000, rate 2^-60 %, 12 months:    *)
(* the monthly rate is below 2^-53, 1 + monthlyRate is 1, the denominator  *)
(* is 0 and the numerator positive, so the three results are Infinity      *)
DegenerateInput ==
    [principal          |-> FromInt(100000),
     annualInterestRate |-> FromNatExp(0, 1, -60),
     tenureMonths       |-> FromInt(12),
     monthlyEMI         |-> Infinity,
     totalInterest      |-> Infinity,
     totalPayment       |-> Infinity]

DefaultInput == EntryInput(100000, 0, 10)

AddInputs == {DefaultInput, DegenerateInput}

NumberFields ==
    {"principal", "annualInterestRate", "tenureMonths", "monthlyEMI", "totalInterest",
     "totalPayment"}

(* A HistoryEntry: the given fields plus id and timestamp *)
MakeEntry(entry, t, rnd) ==
    [f \in DOMAIN entry \cup {"id", "timestamp"} |->
        IF f = "id" THEN [cls |-> "id", t |-> t, r |-> rnd]
        ELSE IF f = "timestamp" THEN FromInt(t)
        ELSE entry[f]]

(* What an earlier session left behind after k adds, one per millisecond *)
SeedLog(k) == [i \in 1..k |-> MakeEntry(DefaultInput, k + 1 - i, 0)]

SessionStart == MAX_HISTORY_ITEMS + 2

(* An array element that is an object without most HistoryEntry fields and *)
(* with a string where the principal should be                             *)
MalformedElement ==
    [f \in NumberFields \cup {"id", "timestamp"} |->
        IF f = "principal" THEN [cls |-> "str", s |-> "abc"] ELSE Undefined]

InitialPayloads ==
    { Absent,
      Text([j |-> "empty"]),
      Text([j |-> "invalid"]),
      Text([j |-> "null"]),
      Text(ObjectWithEntries([cls |-> "str", s |-> "x"])),
      Text(ObjectWithEntries(ArrayOf(<<MalformedElement>>))),
      Stringify(SeedLog(MAX_HISTORY_ITEMS - 1)),
      Stringify(SeedLog(MAX_HISTORY_ITEMS + 1)) }

----------------------------------------------------------------------------
(* useEmiCalculationHistory: the two effects *)

(* The load effect: the array handed to setHistory, if any, and whether    *)
(* the catch block ran                                                     *)
LoadEffect(stored) ==
    IF stored.kind = "absent" \/ stored.json.j = "empty"
    THEN [set |-> FALSE, entries |-> <<>>, caught |-> FALSE]
    ELSE IF stored.json.j \in {"invalid", "null"}
    THEN [set |-> FALSE, entries |-> <<>>, caught |-> TRUE]
    ELSE IF stored.json.entries.cls = "array"
    THEN [set |-> TRUE, entries |-> stored.json.entries.items, caught |-> FALSE]
    ELSE [set |-> FALSE, entries |-> <<>>, caught |-> FALSE]

(* The persist effect without its try/catch *)
PersistEffect_NoCatch(loading, h, slot, writeOk) ==
    IF loading THEN [slot |-> slot, raised |-> "none"]
    ELSE IF writeOk THEN [slot |-> Stringify(h), raised |-> "none"]
    ELSE [slot |-> slot, raised |-> "QuotaExceededError"]

(* The persist effect writing only the newest entry instead of the log *)
PersistEffect_NewestOnly(loading, h, slot, writeOk) ==
    IF loading THEN [slot |-> slot, raised |-> "none"]
    ELSE IF writeOk
    THEN [slot |-> Stringify(SubSeq(h, 1, IF Len(h) < 1 THEN Len(h) ELSE 1)),
          raised |-> "none"]
    ELSE [slot |-> slot, raised |-> "none"]

(* The persist effect, run after a render in which history or isLoading    *)
(* changed: the slot afterwards, and the error that leaves the effect      *)
PersistEffect(loading, h, slot, writeOk) ==
    IF loading THEN [slot |-> slot, raised |-> "none"]
    ELSE IF writeOk THEN [slot |-> Stringify(h), raised |-> "none"]
    ELSE [slot |-> slot, raised |-> "none"]

(* updated.slice(0, MAX_HISTORY_ITEMS + 1) *)
Slice_OneTooMany(updated) ==
    SubSeq(updated, 1, IF Len(updated) < MAX_HISTORY_ITEMS + 1 THEN Len(updated)
                       ELSE MAX_HISTORY_ITEMS + 1)

(* updated.slice(0, MAX_HISTORY_ITEMS) *)
Slice(updated) ==
    SubSeq(updated, 1, IF Len(updated) < MAX_HISTORY_ITEMS THEN Len(updated)
                       ELSE MAX_HISTORY_ITEMS)

(* An updater that puts the new entry last: [...prev, newEntry] *)
Prepend_AtTail(newEntry, prev) == Slice(prev \o <<newEntry>>)

(* The updater addEntry hands to setHistory *)
Prepend(newEntry, prev) == Slice(<<newEntry>> \o prev)

(* history.find((entry) => entry.id === id) *)
getEntry(h, id) ==
    IF \E i \in 1..Len(h) : h[i].id = id
    THEN h[CHOOSE i \in 1..Len(h) : h[i].id = id /\ \A k \in 1..(i - 1) : h[k].id # id]
    ELSE Undefined

----------------------------------------------------------------------------
(* EmiCalculator: the form *)

(* The text of a form field: the characters the user typed, or the string  *)
(* toString() gives for a stored value                                     *)
Typed(chars) == [kind |-> "typed", chars |-> chars]

Shown(v) == [kind |-> "shown", of |-> v]

EmptyForm ==
    [principal |-> Typed(<<>>), interestRate |-> Typed(<<>>), tenure |-> Typed(<<>>),
     tenureUnit |-> "years"]

DigitChars == <<"0", "1", "2", "3", "4", "5", "6", "7", "8", "9">>

IsDigit(c) == \E i \in DOMAIN DigitChars : DigitChars[i] = c

DigitOf(c) == (CHOOSE i \in DOMAIN DigitChars : DigitChars[i] = c) - 1

(* The number of leading decimal digits of chars *)
LeadingDigits(chars) ==
    IF \A i \in DOMAIN chars : IsDigit(chars[i]) THEN Len(chars)
    ELSE (CHOOSE i \in DOMAIN chars :
              ~IsDigit(chars[i]) /\ \A k \in 1..(i - 1) : IsDigit(chars[k])) - 1

RECURSIVE DecimalValue(_, _)
DecimalValue(chars, n) ==
    IF n = 0 THEN 0 ELSE 10 * DecimalValue(chars, n - 1) + DigitOf(chars[n])

(* parseFloat: an optional sign and the longest run of digits after it;    *)
(* NaN when there is no digit. The string of a number parses to the number *)
ParseFloat(text) ==
    IF text.kind = "shown"
    THEN IF text.of.cls \in {"fin", "inf", "nan"} THEN text.of ELSE NaN
    ELSE LET signed == text.chars # <<>> /\ text.chars[1] \in {"-", "+"}
             body   == IF signed THEN Tail(text.chars) ELSE text.chars
             n      == LeadingDigits(body)
             k      == DecimalValue(body, n)
         IN  IF n = 0 THEN NaN
             ELSE IF signed /\ text.chars[1] = "-" THEN FromInt(0 - k) ELSE FromInt(k)

(* !text *)
IsEmptyText(text) == text.kind = "typed" /\ text.chars = <<>>

(* v <= 0 for a number v *)
LeqZero(v) ==
    \/ v.cls = "fin" /\ (IsZero(v) \/ v.sgn = 1)
    \/ v.cls = "inf" /\ v.sgn = 1

(* A double that is an integer of at most 26 bits, and that integer *)
IsSmallInt(v) ==
    /\ v.cls = "fin"
    /\ \/ IsZero(v)
       \/ /\ v.lo = 0
          /\ v.exp + 53 \in 1..26
          /\ v.hi % TwoTo(26 - (v.exp + 53)) = 0

AsInt(v) ==
    IF IsZero(v) THEN 0
    ELSE LET k == v.hi \div TwoTo(26 - (v.exp + 53))
         IN  IF v.sgn = 1 THEN 0 - k ELSE k

(* A positive rate so small that 1 + monthlyRate is 1 *)
IsVanishingRate(v) == v.cls = "fin" /\ ~IsZero(v) /\ v.sgn = 0 /\ v.exp + 53 <= 0 - 43

(* calculateEMI on numbers as the handlers hold them: integers go through  *)
(* calculateEMI above; with a vanishing rate the denominator is 0 and the  *)
(* numerator positive, so the three results are Infinity                   *)
calculateEMIOnNumbers(p, r, n) ==
    IF IsSmallInt(p) /\ IsSmallInt(r) /\ IsSmallInt(n)
    THEN calculateEMI(AsInt(p), AsInt(r), AsInt(n))
    ELSE IF IsSmallInt(p) /\ IsSmallInt(n) /\ IsVanishingRate(r)
    THEN IF AsInt(p) <= 0 \/ AsInt(n) <= 0
         THEN Thrown(INVALID_INPUT_MESSAGE)
         ELSE Results(AsInt(p), AsInt(n), Infinity, Infinity, Infinity)
    ELSE [status |-> "returned",
          value  |-> [monthlyEMI    |-> Term("monthlyEMI", p, r, n),
                      totalPayment  |-> Term("totalPayment", p, r, n),
                      totalInterest |-> Term("totalInterest", p, r, n),
                      principal     |-> p,
                      tenureMonths  |-> n]]

(* v < 0 for a number v *)
LessThanZero(v) == v.cls \in {"fin", "inf"} /\ v.sgn = 1 /\ ~IsZero(v)

(* validateInputs: the fields that get an error message *)
validateInputs(f) ==
    LET principalNum == ParseFloat(f.principal)
        rateNum      == ParseFloat(f.interestRate)
        tenureNum    == ParseFloat(f.tenure)
        invalid(field) ==
            CASE field = "principal" ->
                     IsEmptyText(f.principal) \/ principalNum.cls = "nan"
                         \/ LeqZero(principalNum)
              [] field = "interestRate" ->
                     IsEmptyText(f.interestRate) \/ rateNum.cls = "nan"
                         \/ LessThanZero(rateNum)
              [] field = "tenure" ->
                     IsEmptyText(f.tenure) \/ tenureNum.cls = "nan" \/ LeqZero(tenureNum)
    IN  {field \in {"principal", "interestRate", "tenure"} : invalid(field)}

(* tenureUnit === 'years' ? tenureNum * 12 : tenureNum *)
TenureInMonths(f) ==
    LET tenureNum == ParseFloat(f.tenure)
    IN  IF f.tenureUnit = "years" /\ IsSmallInt(tenureNum)
        THEN FromInt(AsInt(tenureNum) * 12)
        ELSE tenureNum

(* value.toString() throws a TypeError on null and undefined *)
ToStringThrows(v) == v.cls \in {"null", "undef"}

(* What the user types into a number input *)
Texts == {<<"0">>, <<"-", "1">>, <<"1", "2">>}

----------------------------------------------------------------------------
(* useEmiCalculationHistory: operations *)

NoBudget ==
    [adds |-> 0, clears |-> 0, refreshes |-> 0, ticks |-> 0, failures |-> 0, events |-> 0]

(* setItem may throw (quota exceeded) while the failure budget lasts *)
WriteOutcomes == IF budget.failures < MaxWriteFailures THEN {TRUE, FALSE} ELSE {TRUE}

Spend(kinds, writeOk) ==
    [k \in DOMAIN budget |->
        IF k \in kinds \/ (k = "failures" /\ ~writeOk) THEN budget[k] + 1 ELSE budget[k]]

(* Adds, clears, reloads and ticks so far *)
OpsSpent == budget.adds + budget.clears + budget.refreshes + budget.ticks

(* Keystrokes and clicks on the calculator form so far *)
FormEventsSpent == budget.events + budget.adds

(* Mount: the load effect, then the render it causes and its persist effect *)
Initialize(writeOk) ==
    /\ isLoading
    /\ LET l == LoadEffect(storage)
           h == IF l.set THEN l.entries ELSE history
           p == PersistEffect(FALSE, h, storage, writeOk)
       IN  /\ history' = h
           /\ isLoading' = FALSE
           /\ storage' = p.slot
           /\ raised' = p.raised
           /\ fromEmpty' = (h = <<>>)
           /\ lastOp' = [op |-> "initialize", writeOk |-> writeOk, caught |-> l.caught]
    /\ added' = <<>>
    /\ ret' = Undefined
    /\ budget' = Spend({}, writeOk)
    /\ UNCHANGED <<now, beforeReload, calcVars, formVars>>

(* The entries of the array a slot holds under "entries", if any *)
ItemsOf(slot) ==
    IF slot.kind = "text" /\ slot.json.j = "object" /\ slot.json.entries.cls = "array"
    THEN slot.json.entries.items
    ELSE <<>>

(* The ids of the entries addEntry created in this session that are in the *)
(* log and not in the slot: their write failed and none succeeded since    *)
UnsavedIds ==
    ({added[i].id : i \in DOMAIN added} \cap {history[i].id : i \in DOMAIN history})
        \ {ItemsOf(storage)[i].id : i \in DOMAIN ItemsOf(storage)}

(* addEntry, the render it causes and that render's persist effect; both   *)
(* Date.now() calls of one addEntry read the same millisecond              *)
AddEntryStep(entry, rnd, writeOk) ==
    /\ ~isLoading
    /\ LET newEntry == MakeEntry(entry, now, rnd)
           h == Prepend(newEntry, history)
           p == PersistEffect(isLoading, h, storage, writeOk)
       IN  /\ history' = h
           /\ storage' = p.slot
           /\ raised' = p.raised
           /\ added' = Append(added, newEntry)
           /\ lastOp' = [op |-> "add", entry |-> entry, id |-> newEntry.id,
                         writeOk |-> writeOk, unsaved |-> UnsavedIds]
    /\ ret' = Undefined
    /\ budget' = Spend({"adds"}, writeOk)
    /\ UNCHANGED <<isLoading, now, fromEmpty, beforeReload, calcVars>>

(* The k-th add of a session draws one of k values of Math.random: only    *)
(* equality of the drawn values matters                                    *)
RandomValues == 0..(IF budget.adds < MaxRandom THEN budget.adds ELSE MaxRandom)

AddEntry ==
    /\ budget.adds < MaxAdds
    /\ OpsSpent < MaxOps
    /\ \E entry \in AddInputs, rnd \in RandomValues, writeOk \in WriteOutcomes :
           AddEntryStep(entry, rnd, writeOk)
    /\ UNCHANGED formVars

(* clearHistory, the render it causes and that render's persist effect *)
ClearHistory ==
    /\ ~isLoading
    /\ budget.clears < MaxClears
    /\ OpsSpent < MaxOps
    /\ \E writeOk \in WriteOutcomes :
           LET p == PersistEffect(isLoading, <<>>, Absent, writeOk)
           IN  /\ history' = <<>>
               /\ storage' = p.slot
               /\ raised' = p.raised
               /\ lastOp' = [op |-> "clear", writeOk |-> writeOk]
               /\ budget' = Spend({"clears"}, writeOk)
    /\ added' = <<>>
    /\ fromEmpty' = TRUE
    /\ ret' = Undefined
    /\ UNCHANGED <<isLoading, now, beforeReload, calcVars, formVars>>

StaleId == [cls |-> "id", t |-> 0, r |-> 0]

(* getEntry called with the id of the newest or the oldest entry of the    *)
(* log, or with a stale id                                                 *)
GetEntry ==
    /\ ~isLoading
    /\ lastOp.op # "get"
    /\ \E id \in {history[i].id : i \in {1, Len(history)} \cap DOMAIN history}
                 \cup {StaleId} :
           /\ ret' = getEntry(history, id)
           /\ lastOp' = [op |-> "get", id |-> id]
    /\ raised' = "none"
    /\ UNCHANGED <<storeVars, calcVars, formVars>>

(* The page is reloaded: the component is constructed anew *)
Refresh ==
    /\ ~isLoading
    /\ budget.refreshes < MaxRefreshes
    /\ OpsSpent < MaxOps
    /\ history' = <<>>
    /\ beforeReload' = history
    /\ isLoading' = TRUE
    /\ added' = <<>>
    /\ fromEmpty' = FALSE
    /\ lastOp' = [op |-> "refresh"]
    /\ ret' = Undefined
    /\ raised' = "none"
    /\ budget' = Spend({"refreshes"}, TRUE)
    /\ form' = EmptyForm
    /\ result' = Null
    /\ errors' = {}
    /\ UNCHANGED <<storage, now, calcVars>>

(* A millisecond passes *)
Tick ==
    /\ budget.ticks < MaxTicks
    /\ OpsSpent < MaxOps
    /\ now' = now + 1
    /\ budget' = Spend({"ticks"}, TRUE)
    /\ lastOp' = [op |-> "tick"]
    /\ UNCHANGED <<storage, history, isLoading, added, fromEmpty, beforeReload, ret, raised,
                   calcVars, formVars>>

(* onChange of one of the three inputs *)
TypeField ==
    /\ ~isLoading
    /\ FormEventsSpent < MaxFormEvents
    /\ \E field \in {"principal", "interestRate", "tenure"}, chars \in Texts :
           /\ form[field] # Typed(chars)
           /\ form' = [form EXCEPT ![field] = Typed(chars)]
           /\ errors' = errors \ {field}
           /\ lastOp' = [op |-> "type", field |-> field]
    /\ budget' = Spend({"events"}, TRUE)
    /\ ret' = Undefined
    /\ raised' = "none"
    /\ UNCHANGED <<storage, history, isLoading, now, added, fromEmpty, beforeReload,
                   calcVars, result>>

(* onValueChange of the years / months selector *)
SetTenureUnit ==
    /\ ~isLoading
    /\ FormEventsSpent < MaxFormEvents
    /\ form' = [form EXCEPT !.tenureUnit = IF @ = "years" THEN "months" ELSE "years"]
    /\ lastOp' = [op |-> "unit"]
    /\ budget' = Spend({"events"}, TRUE)
    /\ ret' = Undefined
    /\ raised' = "none"
    /\ UNCHANGED <<storage, history, isLoading, now, added, fromEmpty, beforeReload,
                   calcVars, result, errors>>

(* handleCalculate: validateInputs, calculateEMI, setResult, addEntry *)
HandleCalculate ==
    /\ ~isLoading
    /\ errors' = validateInputs(form)
    /\ IF validateInputs(form) # {}
       THEN /\ result' = Null
            /\ lastOp' = [op |-> "calculate", valid |-> FALSE]
            /\ ret' = Undefined
            /\ raised' = "none"
            /\ FormEventsSpent < MaxFormEvents
            /\ budget' = Spend({"events"}, TRUE)
            /\ UNCHANGED logVars
       ELSE LET principalNum   == ParseFloat(form.principal)
                rateNum        == ParseFloat(form.interestRate)
                tenureInMonths == TenureInMonths(form)
                emiResult == calculateEMIOnNumbers(principalNum, rateNum, tenureInMonths)
            IN  IF emiResult.status = "threw"
                THEN /\ lastOp' = [op |-> "calculate", valid |-> TRUE]
                     /\ ret' = Undefined
                     /\ raised' = emiResult.error.message
                     /\ FormEventsSpent < MaxFormEvents
                     /\ budget' = Spend({"events"}, TRUE)
                     /\ UNCHANGED <<logVars, result>>
                ELSE /\ budget.adds < MaxAdds
                     /\ OpsSpent < MaxOps
                     /\ FormEventsSpent < MaxFormEvents
                     /\ result' = emiResult.value
                     /\ \E rnd \in RandomValues, writeOk \in WriteOutcomes :
                            AddEntryStep([principal          |-> principalNum,
                                          annualInterestRate |-> rateNum,
                                          tenureMonths       |-> tenureInMonths,
                                          monthlyEMI         |-> emiResult.value.monthlyEMI,
                                          totalInterest      |-> emiResult.value.totalInterest,
                                          totalPayment       |-> emiResult.value.totalPayment],
                                         rnd, writeOk)
    /\ UNCHANGED <<form, calcVars>>

(* handleReset *)
HandleReset ==
    /\ ~isLoading
    /\ <<form, result, errors>> # <<EmptyForm, Null, {}>>
    /\ form' = EmptyForm
    /\ result' = Null
    /\ errors' = {}
    /\ lastOp' = [op |-> "reset"]
    /\ ret' = Undefined
    /\ raised' = "none"
    /\ FormEventsSpent < MaxFormEvents
    /\ budget' = Spend({"events"}, TRUE)
    /\ UNCHANGED <<logVars, calcVars>>

(* handleLoadEntry(entryId) with the id of the newest entry or a stale id. *)
(* State setters that ran before an exception keep their effect            *)
HandleLoadEntry ==
    /\ ~isLoading
    /\ \E entryId \in {history[i].id : i \in {1} \cap DOMAIN history} \cup {StaleId} :
           LET entry == getEntry(history, entryId)
           IN  IF entry = Undefined
               THEN /\ lastOp' = [op |-> "load", id |-> entryId, found |-> FALSE]
                    /\ raised' = "none"
                    /\ UNCHANGED formVars
               ELSE /\ lastOp' = [op |-> "load", id |-> entryId, found |-> TRUE]
                    /\ IF ToStringThrows(entry.principal)
                       THEN /\ raised' = "TypeError"
                            /\ UNCHANGED formVars
                       ELSE IF ToStringThrows(entry.annualInterestRate)
                       THEN /\ raised' = "TypeError"
                            /\ form' = [form EXCEPT !.principal = Shown(entry.principal)]
                            /\ UNCHANGED <<result, errors>>
                       ELSE IF ToStringThrows(entry.tenureMonths)
                       THEN /\ raised' = "TypeError"
                            /\ form' = [form EXCEPT
                                            !.principal = Shown(entry.principal),
                                            !.interestRate = Shown(entry.annualInterestRate)]
                            /\ UNCHANGED <<result, errors>>
                       ELSE LET emiResult ==
                                    calculateEMIOnNumbers(entry.principal,
                                                          entry.annualInterestRate,
                                                          entry.tenureMonths)
                            IN  /\ form' = [principal    |-> Shown(entry.principal),
                                            interestRate |-> Shown(entry.annualInterestRate),
                                            tenure       |-> Shown(entry.tenureMonths),
                                            tenureUnit   |-> "months"]
                                /\ errors' = {}
                                /\ IF emiResult.status = "threw"
                                   THEN /\ raised' = emiResult.error.message
                                        /\ UNCHANGED result
                                   ELSE /\ raised' = "none"
                                        /\ result' = emiResult.value
    /\ ret' = Undefined
    /\ FormEventsSpent < MaxFormEvents
    /\ budget' = Spend({"events"}, TRUE)
    /\ UNCHANGED <<logVars, calcVars>>

InitStore ==
    /\ history = <<>>
    /\ isLoading = TRUE
    /\ now = SessionStart
    /\ lastOp = NoOp
    /\ ret = Undefined
    /\ raised = "none"
    /\ added = <<>>
    /\ fromEmpty = FALSE
    /\ beforeReload = <<>>
    /\ budget = NoBudget
    /\ form = EmptyForm
    /\ result = Null
    /\ errors = {}

Init ==
    /\ storage \in InitialPayloads
    /\ InitStore
    /\ calcArgs = [principal |-> 100000, annualInterestRate |-> 0, tenureMonths |-> 10]
    /\ calcOut = Pending

Next ==
    \/ \E writeOk \in WriteOutcomes : Initialize(writeOk)
    \/ AddEntry
    \/ ClearHistory
    \/ GetEntry
    \/ Refresh
    \/ Tick

Spec == Init /\ [][Next]_vars

(* calculateEMI on its own, over a grid of integer arguments *)
InitCalc ==
    /\ storage = Absent
    /\ InitStore
    /\ calcArgs \in CalcInputs
    /\ calcOut = Pending

NextCalc == Compute

SpecCalc == InitCalc /\ [][NextCalc]_vars

(* A fresh installation in which every add falls into a millisecond of its *)
(* own: the log fills up and overflows                                     *)
FillTick ==
    /\ lastOp.op \in {"initialize", "add"}
    /\ now < SessionStart + MaxFill
    /\ now' = now + 1
    /\ budget' = Spend({"ticks"}, TRUE)
    /\ lastOp' = [op |-> "tick"]
    /\ UNCHANGED <<storage, history, isLoading, added, fromEmpty, beforeReload, ret, raised,
                   calcVars, formVars>>

FillAdd ==
    /\ lastOp.op = "tick"
    /\ \E writeOk \in WriteOutcomes : AddEntryStep(DefaultInput, 0, writeOk)
    /\ UNCHANGED formVars

InitFill ==
    /\ storage = Absent
    /\ InitStore
    /\ calcArgs = [principal |-> 100000, annualInterestRate |-> 0, tenureMonths |-> 10]
    /\ calcOut = Pending

NextFill ==
    \/ \E writeOk \in WriteOutcomes : Initialize(writeOk)
    \/ FillTick
    \/ FillAdd

SpecFill == InitFill /\ [][NextFill]_vars

(* The calculator page: the form, its handlers and the history they feed.  *)
(* The slot is empty, or holds what two earlier adds left, or holds one    *)
(* entry of the right shape whose principal is 0                           *)
RejectedInputEntry ==
    MakeEntry([principal          |-> Zero,
               annualInterestRate |-> FromInt(5),
               tenureMonths       |-> FromInt(12),
               monthlyEMI         |-> Zero,
               totalInterest      |-> Zero,
               totalPayment       |-> Zero], 1, 0)

FormPayloads == {Absent, Stringify(SeedLog(2)), Stringify(<<RejectedInputEntry>>)}

InitForm ==
    /\ storage \in FormPayloads
    /\ InitStore
    /\ calcArgs = [principal |-> 100000, annualInterestRate |-> 0, tenureMonths |-> 10]
    /\ calcOut = Pending

NextForm ==
    \/ \E writeOk \in WriteOutcomes : Initialize(writeOk)
    \/ TypeField
    \/ SetTenureUnit
    \/ HandleCalculate
    \/ HandleReset
    \/ HandleLoadEntry

SpecForm == InitForm /\ [][NextForm]_vars

----------------------------------------------------------------------------
(* Properties *)

Min(a, b) == IF a < b THEN a ELSE b

(* The entry the last addEntry created *)
Created == MakeEntry(lastOp.entry, lastOp.id.t, lastOp.id.r)

PersistedItems ==
    IF storage.kind = "text" /\ storage.json.j = "object"
       /\ storage.json.entries.cls = "array"
    THEN storage.json.entries.items
    ELSE <<>>

(* C1: once more than 50 entries have been added to a store that started   *)
(* empty, the log holds exactly 50 entries, they are the 50 added last,    *)
(* newest first, and none of the entries added before them is in the log.  *)
C1_KeepsNewestFifty ==
    (fromEmpty /\ Len(added) > MAX_HISTORY_ITEMS) =>
        /\ Len(history) = MAX_HISTORY_ITEMS
        /\ \A i \in 1..MAX_HISTORY_ITEMS : history[i] = added[Len(added) + 1 - i]
        /\ \A k \in 1..(Len(added) - MAX_HISTORY_ITEMS) :
               \A i \in 1..Len(history) : history[i] # added[k]

C1_Witness ==
    /\ fromEmpty
    /\ Len(added) = MAX_HISTORY_ITEMS + 1
    /\ Len(history) = MAX_HISTORY_ITEMS
    /\ history[1] = added[MAX_HISTORY_ITEMS + 1]

(* C2: once initialize has run, the in-memory log and the entries array in *)
(* the slot never hold more than 50 entries.                               *)
C2_AtMostFifty ==
    ~isLoading =>
        /\ Len(history) <= MAX_HISTORY_ITEMS
        /\ Len(PersistedItems) <= MAX_HISTORY_ITEMS

(* A well-formed HistoryEntry: a string id and seven finite numbers *)
WellFormedEntry(e) ==
    /\ DOMAIN e = NumberFields \cup {"id", "timestamp"}
    /\ e.id.cls \in {"id", "str"}
    /\ \A f \in NumberFields \cup {"timestamp"} : e[f].cls = "fin"

WellFormedPayload(stored) ==
    /\ stored.kind = "text"
    /\ stored.json.j = "object"
    /\ stored.json.entries.cls = "array"
    /\ \A i \in 1..Len(stored.json.entries.items) :
           WellFormedEntry(stored.json.entries.items[i])

(* C3: initialize raises nothing, and when the slot does not hold an       *)
(* ordered sequence of well-formed HistoryEntry records the log it leaves  *)
(* is empty.                                                               *)
C3_EmptyOnBadPayload ==
    [][(isLoading /\ ~isLoading') =>
          /\ raised' = "none"
          /\ (~WellFormedPayload(storage) => history' = <<>>)]_vars

(* C4: a clear of a non-empty log leaves the log empty and the slot absent *)
(* from storage.                                                           *)
C4_SlotDeleted ==
    [][(lastOp'.op = "clear" /\ history # <<>>) =>
          /\ history' = <<>>
          /\ storage' = Absent]_vars

(* C5: when no write has failed, the log initialize builds after a page    *)
(* reload equals the log the reload threw away.                            *)
C5_SurvivesRefresh ==
    (lastOp.op = "initialize" /\ budget.refreshes > 0 /\ budget.failures = 0) =>
        history = beforeReload

(* C6: an add whose write fails raises nothing, puts the new entry at the  *)
(* head of the log, keeps the entries held before behind it up to the      *)
(* bound of 50, and leaves the slot as it was.                             *)
C6_FailedWriteKeepsLog ==
    [][(lastOp'.op = "add" /\ ~lastOp'.writeOk) =>
          /\ raised' = "none"
          /\ history'[1] = MakeEntry(lastOp'.entry, now, lastOp'.id.r)
          /\ Tail(history') =
                 SubSeq(history, 1, Min(Len(history), MAX_HISTORY_ITEMS - 1))
          /\ storage' = storage]_vars

C6_Witness ==
    /\ lastOp.op = "add"
    /\ ~lastOp.writeOk
    /\ Len(history) = MAX_HISTORY_ITEMS
    /\ history[1] = Created
    /\ Len(PersistedItems) < Len(history)

InvalidFields(a) ==
    {f \in {"principal"} : a.principal <= 0}
        \cup {f \in {"tenureMonths"} : a.tenureMonths <= 0}
        \cup {f \in {"annualInterestRate"} : a.annualInterestRate < 0}

Calculated == calcOut # Pending

ZeroRateResult ==
    /\ calcOut.status = "returned"
    /\ calcArgs.annualInterestRate = 0

C10_ClearIdempotent ==
    [][(lastOp.op = "clear" /\ lastOp'.op = "clear") =>
          /\ raised = "none"
          /\ raised' = "none"
          /\ history = <<>>
          /\ history' = <<>>
          /\ storage' = storage]_vars

(* C11: in every reachable state the ids of the entries of the log are     *)
(* pairwise distinct, whatever Date.now() and Math.random() return         *)
C11_UniqueIds ==
    \A i, j \in DOMAIN history : i # j => history[i].id # history[j].id

(* What calculateEMI gives for the stored inputs of an entry *)
Recomputed(entry) ==
    calculateEMIOnNumbers(entry.principal, entry.annualInterestRate, entry.tenureMonths)

RejectedCalculateAndLoadKeepLog ==
    [][ lastOp'.op \in {"calculate", "load"} =>
            history' = history /\ storage' = storage ]_vars

PersistedIds == {PersistedItems[i].id : i \in DOMAIN PersistedItems}

(* C13: after a failed write nothing writes the slot until the next        *)
(* operation of the store, and the next add whose write succeeds persists  *)
(* the whole log: the slot then holds, in the order of the log, the entry  *)
(* whose own write had failed as well as the new one.                      *)
C13_NextAddPersistsWholeLog ==
    [][ /\ storage' # storage => lastOp'.op \in {"add", "clear", "initialize"}
        /\ (lastOp'.op = "add" /\ lastOp'.writeOk) =>
              /\ storage' = Stringify(history')
              /\ Len(PersistedItems') = Len(history')
              /\ \A i \in DOMAIN history' : PersistedItems'[i].id = history'[i].id
              /\ lastOp'.unsaved \cup {lastOp'.id} \subseteq PersistedIds' ]_vars

C13_Witness ==
    /\ lastOp.op = "add"
    /\ lastOp.writeOk
    /\ lastOp.unsaved # {}
    /\ lastOp.id \notin lastOp.unsaved
    /\ lastOp.unsaved \cup {lastOp.id} \subseteq PersistedIds
    /\ Len(PersistedItems) = Len(history)

============================================================================
